---- MODULE Spec2Model ----
(***************************************************************************)
(* Junting Orbit browser extension: the local job-history store            *)
(* (src/lib/jobHistory.ts, storage.ts) and the "Mark as Applied" content   *)
(* script (src/content/applicationTracker.ts).                             *)
(*                                                                         *)
(* Text is a sequence of one-character strings.  A URL text is a record    *)
(* [scheme, host, path]; scheme "" stands for a text without a scheme,     *)
(* which `new URL` rejects.  A path is the tuple of its segments: <<>> is   *)
(* the empty path, <<"">> is "/", <<"feed">> is "/feed" and                *)
(* <<"jobs","view",n>> is "/jobs/view/<n>".                                *)
(***************************************************************************)
EXTENDS Integers, Sequences, FiniteSets, TLC

VARIABLES
    clock,      \* Date.now()
    draft,      \* argument of createHistoryEntry (entry specification)
    created,    \* outcome of createHistoryEntry on draft
    coll,       \* the collection threaded through the store operations
    addLog,     \* ids passed to addToHistory so far, oldest first
    cycle,      \* capacity specification: number of job pages visited in rotation
    adds,       \* capacity specification: analyses in rotation so far
    readds,     \* capacity specification: repeated analyses of the oldest entry
    lastOp,     \* the store operation performed last, with its input
    storage,        \* chrome.storage.local[STORAGE_KEY]
    hostname,       \* window.location.hostname
    href,           \* window.location.href
    pageContainer,  \* the site adapter's container is in the document
    applyElement,   \* an interactive element mentioning "apply" is in the document
    dom,            \* the elements with id BUTTON_ID, in document order
    boot,           \* position of the content script's top-level code
    dcl,            \* the DOMContentLoaded listener and its 100 ms timer
    currentSite,    \* cached job site
    isInitializing, \* scan-in-progress guard
    navigationTimeout,  \* a debounce timer is pending
    lastUrl,        \* the observer's last-seen URL
    scan,           \* the initializeButton invocation past the guard, if any
    handlers,       \* handleMarkAsApplied invocations in flight, in the order of their clicks
    toast,          \* the message shown last
    appHistory,     \* the popup's AppData.jobHistory
    analysis,       \* the popup's handleAnalyze invocation
    jobHistoryUpdated   \* parity of the number of 'jobHistoryUpdated' events dispatched

storeVars == <<coll, addLog, cycle, adds, readds, lastOp>>
entryVars == <<draft, created>>
pageVars == <<hostname, href, pageContainer, applyElement>>
scriptVars == <<dom, boot, dcl, currentSite, isInitializing, navigationTimeout,
                lastUrl, scan, handlers, toast>>
popupVars == <<appHistory, analysis, jobHistoryUpdated>>
engineVars == <<storage, pageVars, scriptVars, popupVars>>
vars == <<clock, entryVars, storeVars, engineVars>>

----------------------------------------------------------------------------
(* Bounds of the model *)
MaxClock == 2
MaxHandlers == 1
MaxAttempts == 2
MaxCycle == 22
MaxAdds == 24
MaxReadds == 1
MaxPending == 2

(* Program constants *)
MAX_HISTORY_ITEMS == 20
MAX_TITLE_LENGTH == 200
MAX_COMPANY_LENGTH == 100
MAX_FLAG_LENGTH == 150
MAX_FLAGS_PER_ENTRY == 3
SANITIZE_LIMIT == 10000
ID_LENGTH == 16
DIGEST_HEX_LENGTH == 64

Min(a, b) == IF a < b THEN a ELSE b
Max(a, b) == IF a > b THEN a ELSE b

----------------------------------------------------------------------------
(* Text helpers *)

Rep(c, n) == [i \in 1..n |-> c]

\* String.prototype.slice(0, n)
Slice(s, n) == SubSeq(s, 1, Min(Len(s), n))

\* String.prototype.trim()
Trim(s) ==
    LET n == Len(s)
        first == CHOOSE i \in 1..(n + 1) :
                    /\ \A j \in 1..(i - 1) : s[j] = " "
                    /\ (i = n + 1 \/ s[i] # " ")
        last == CHOOSE i \in 0..n :
                    /\ \A j \in (i + 1)..n : s[j] = " "
                    /\ (i = 0 \/ s[i] # " ")
    IN  IF first > last THEN <<>> ELSE SubSeq(s, first, last)

NotAngle(c) == c \notin {"<", ">"}

sanitizeString(input) ==
    Slice(Trim(SelectSeq(input, NotAngle)), SANITIZE_LIMIT)

UntitledJob == <<"U","n","t","i","t","l","e","d"," ","J","o","b">>
UnknownCompany == <<"U","n","k","n","o","w","n"," ","C","o","m","p","a","n","y">>

----------------------------------------------------------------------------
(* URLs *)

PathEmpty == <<>>
PathRoot == <<"">>
PathFeed == <<"feed">>
JobPath(n) == <<"jobs", "view", n>>

LowerCase(s) ==
    CASE s = "HTTPS" -> "https"
      [] s = "HTTP" -> "http"
      [] s = "WWW.LINKEDIN.COM" -> "www.linkedin.com"
      [] OTHER -> s

\* new URL(url): fails on a text without a scheme; otherwise the scheme and
\* the host are lower-cased and an empty path becomes "/".
UrlParses(url) == url.scheme # ""

UrlHref(url) ==
    [scheme |-> LowerCase(url.scheme),
     host |-> LowerCase(url.host),
     path |-> IF url.path = PathEmpty THEN PathRoot ELSE url.path]

UrlProtocol(url) == LowerCase(url.scheme)

AllowedProtocol(p) == p \in {"http", "https"}

NoUrl == [scheme |-> "", host |-> "", path |-> PathEmpty]

\* mutant: the protocol is not checked
sanitizeUrl_AnyProtocol(url) ==
    IF ~UrlParses(url) THEN [ok |-> FALSE, href |-> NoUrl]
    ELSE [ok |-> TRUE, href |-> UrlHref(url)]

\* sanitizeUrl returns null (here: ok = FALSE) or parsed.href
sanitizeUrl(url) ==
    IF ~UrlParses(url) THEN [ok |-> FALSE, href |-> NoUrl]
    ELSE IF ~AllowedProtocol(UrlProtocol(url)) THEN [ok |-> FALSE, href |-> NoUrl]
    ELSE [ok |-> TRUE, href |-> UrlHref(url)]

----------------------------------------------------------------------------
(* generateJobId: SHA-256 of the URL text, hex, first 16 characters.        *)
(* The digest is abstracted as an injective encoding of the text into 64    *)
(* hex digits (collision resistance), so that equal ids mean equal texts.   *)

SchemeCode(s) ==
    CASE s = "https" -> 1 [] s = "HTTPS" -> 2 [] s = "http" -> 3
      [] s = "HTTP" -> 4 [] s = "ftp" -> 5 [] OTHER -> 0

HostCode(h) ==
    CASE h = "www.linkedin.com" -> 1 [] h = "WWW.LINKEDIN.COM" -> 2
      [] h = "www.seek.com.au" -> 3 [] h = "jobs.example.org" -> 4
      [] h = "au.indeed.com" -> 5 [] h = "thehub.io" -> 6
      [] h = "indeed.com.thehub.io" -> 7 [] OTHER -> 0

PathCode(p) ==
    IF p = PathEmpty THEN 0
    ELSE IF p = PathRoot THEN 1
    ELSE IF p = PathFeed THEN 2
    ELSE 2 + p[3]

Sha256Hex(url) ==
    [i \in 1..DIGEST_HEX_LENGTH |->
        CASE i = 1 -> SchemeCode(url.scheme)
          [] i = 2 -> HostCode(url.host)
          [] i = 3 -> (PathCode(url.path) \div 16) % 16
          [] i = 4 -> PathCode(url.path) % 16
          [] OTHER -> (SchemeCode(url.scheme) + HostCode(url.host)
                         + PathCode(url.path) + i) % 16]

generateJobId(url) == SubSeq(Sha256Hex(url), 1, ID_LENGTH)

----------------------------------------------------------------------------
(* History entries (src/lib/jobHistory.ts) *)

Labels == {"Strong Fit", "Medium Fit", "Weak Fit"}
DecisionHelpers == {"Apply Immediately", "Tailor & Apply", "Skip for Now"}

FlagsOk(flags) ==
    /\ Len(flags) <= MAX_FLAGS_PER_ENTRY
    /\ \A i \in 1..Len(flags) : Len(flags[i]) <= MAX_FLAG_LENGTH

validateHistoryEntry(e) ==
    /\ Len(e.id) = ID_LENGTH
    /\ Len(e.title) <= MAX_TITLE_LENGTH
    /\ Len(e.company) <= MAX_COMPANY_LENGTH
    /\ UrlParses(e.url)
    /\ AllowedProtocol(UrlProtocol(e.url))
    /\ e.matchScore >= 0
    /\ e.matchScore <= 100
    /\ e.analyzedAt >= 0
    /\ e.label \in Labels
    /\ e.decisionHelper \in DecisionHelpers
    /\ FlagsOk(e.topGreenFlags)
    /\ FlagsOk(e.topRedFlags)

sanitizeFlag(flag) == Slice(sanitizeString(flag), MAX_FLAG_LENGTH)

NonEmptyText(f) == Len(f) > 0

\* mutant: empty flags are dropped before the first three are taken
TopFlags_FilterFirst(flags) ==
    LET clean == [i \in 1..Len(flags) |-> sanitizeFlag(flags[i])]
    IN  Slice(SelectSeq(clean, NonEmptyText), MAX_FLAGS_PER_ENTRY)

\* flags.slice(0, MAX_FLAGS_PER_ENTRY).map(sanitizeFlag).filter(f => f.length > 0)
TopFlags(flags) ==
    LET top == Slice(flags, MAX_FLAGS_PER_ENTRY)
        clean == [i \in 1..Len(top) |-> sanitizeFlag(top[i])]
    IN  SelectSeq(clean, NonEmptyText)

\* data.title || "Untitled Job": an absent or empty text takes the default
OrDefault(opt, default) == IF opt.has /\ Len(opt.v) > 0 THEN opt.v ELSE default

\* mutant: the upper clamp is missing
ClampScore_NoUpper(x) == Max(0, x)

ClampScore(x) == Max(0, Min(100, x))

\* The outcome is [ok |-> TRUE, entry |-> e], or ok = FALSE when
\* createHistoryEntry throws Error("Invalid URL").
createHistoryEntry(data, now) ==
    LET sanitizedUrl == sanitizeUrl(data.url)
    IN  IF ~sanitizedUrl.ok
        THEN [ok |-> FALSE, error |-> "Invalid URL"]
        ELSE [ok |-> TRUE,
              entry |->
                [id |-> generateJobId(sanitizedUrl.href),
                 url |-> sanitizedUrl.href,
                 title |-> Slice(sanitizeString(OrDefault(data.title, UntitledJob)),
                                 MAX_TITLE_LENGTH),
                 company |-> Slice(sanitizeString(OrDefault(data.company, UnknownCompany)),
                                   MAX_COMPANY_LENGTH),
                 matchScore |-> ClampScore(data.matchScore),
                 label |-> data.label,
                 decisionHelper |-> data.decisionHelper,
                 topGreenFlags |-> TopFlags(data.greenFlags),
                 topRedFlags |-> TopFlags(data.redFlags),
                 analyzedAt |-> now]]

\* mutant: the stale copy is not filtered out
addToHistory_NoDedup(currentHistory, newEntry) ==
    Slice(<<newEntry>> \o SelectSeq(currentHistory, validateHistoryEntry),
          MAX_HISTORY_ITEMS)

\* mutant: the result is not cut to MAX_HISTORY_ITEMS
addToHistory_NoLimit(currentHistory, newEntry) ==
    LET Keep(entry) == validateHistoryEntry(entry) /\ entry.id # newEntry.id
    IN  <<newEntry>> \o SelectSeq(currentHistory, Keep)

addToHistory(currentHistory, newEntry) ==
    LET Keep(entry) == validateHistoryEntry(entry) /\ entry.id # newEntry.id
        validHistory == SelectSeq(currentHistory, Keep)
        updatedHistory == <<newEntry>> \o validHistory
    IN  Slice(updatedHistory, MAX_HISTORY_ITEMS)

\* mutant: every entry is stamped
markJobAsApplied_All(history, url, now) ==
    [i \in 1..Len(history) |-> [appliedAt |-> now] @@ history[i]]

\* { ...entry, appliedAt: Date.now() } for the entries whose id is the hash of url
markJobAsApplied(history, url, now) ==
    LET jobId == generateJobId(url)
    IN  [i \in 1..Len(history) |->
            IF history[i].id = jobId
            THEN [appliedAt |-> now] @@ history[i]
            ELSE history[i]]

HasAppliedAt(e) == "appliedAt" \in DOMAIN e

\* !!entry?.appliedAt for the entry found by the hash of url
isJobApplied(history, url) ==
    \E i \in 1..Len(history) :
        /\ history[i].id = generateJobId(url)
        /\ \A j \in 1..(i - 1) : history[j].id # generateJobId(url)
        /\ HasAppliedAt(history[i])
        /\ history[i].appliedAt # 0

Ids(history) == [i \in 1..Len(history) |-> history[i].id]

----------------------------------------------------------------------------
(* Inputs *)

Host == "www.linkedin.com"

JobUrl(n) == [scheme |-> "https", host |-> Host, path |-> JobPath(n)]
\* the same page written with an upper-case scheme and host
JobUrlUpper(n) == [scheme |-> "HTTPS", host |-> "WWW.LINKEDIN.COM", path |-> JobPath(n)]
\* the site root written without the trailing slash
RootUrlBare == [scheme |-> "http", host |-> Host, path |-> PathEmpty]
FtpUrl == [scheme |-> "ftp", host |-> Host, path |-> JobPath(1)]
RelativeUrl == [scheme |-> "", host |-> "", path |-> JobPath(1)]

InvalidUrls == {FtpUrl, RelativeUrl}

Absent == [has |-> FALSE, v |-> <<>>]
Given(text) == [has |-> TRUE, v |-> text]

LongText(n) == Rep("a", n)

DraftTitles ==
    { Absent, Given(<<>>), Given(<<"D", "e", "v">>),
      Given(<<" ", "<", "b", ">", "Q", "A", "<", "/", "b", ">", " ">>),
      Given(<<"<", ">">>),
      Given(LongText(MAX_TITLE_LENGTH + 1)),
      Given(<<"<">> \o LongText(MAX_TITLE_LENGTH) \o <<" ", "x">>) }

DraftCompanies ==
    { Absent, Given(<<"A", "c", "m", "e">>), Given(LongText(MAX_COMPANY_LENGTH + 1)) }

DraftScores == {0 - 5, 0, 82, 100, 150}

DraftFlagLists ==
    { <<>>,
      << <<"a">>, <<"b">> >>,
      << <<" ", "a", " ">>, <<"<", ">">>, <<"c">>, <<"d">> >>,
      << LongText(MAX_FLAG_LENGTH + 1), <<" ">>, <<"<", "i", ">", "e">>, <<"f">>, <<"g">> >> }

DraftUrls == {JobUrl(1), JobUrlUpper(1), RootUrlBare} \cup InvalidUrls

Drafts ==
    [url : DraftUrls, title : DraftTitles, company : DraftCompanies,
     matchScore : DraftScores, label : Labels, decisionHelper : {"Tailor & Apply"},
     greenFlags : DraftFlagLists, redFlags : {<<>>, << <<"r">> >>}]

\* the assessment fields of the store specifications' drafts
DraftFor(url) ==
    [url |-> url, title |-> Given(<<"D", "e", "v">>), company |-> Absent,
     matchScore |-> 82, label |-> "Strong Fit", decisionHelper |-> "Apply Immediately",
     greenFlags |-> << <<"a">>, <<"b">> >>, redFlags |-> << <<"c">> >>]

NoDraft == DraftFor(NoUrl)
NotCreated == [ok |-> FALSE, error |-> "pending"]
NoOp == [op |-> "none", url |-> NoUrl, preLen |-> 0, hit |-> FALSE, followsAdd |-> FALSE]

----------------------------------------------------------------------------
(* Persisted data (storage.ts).  Of StoredData the model keeps the          *)
(* assessment and the job history; an absent jobHistory reads as <<>>, as   *)
(* every caller takes `stored.jobHistory || []`.                            *)

NullAssessment ==
    [isNull |-> TRUE, label |-> "", matchScore |-> 0, decisionHelper |-> ""]
OkAssessment ==
    [isNull |-> FALSE, label |-> "Strong Fit", matchScore |-> 82,
     decisionHelper |-> "Apply Immediately"]
BadAssessment ==
    [isNull |-> FALSE, label |-> "Great Fit", matchScore |-> 82,
     decisionHelper |-> "Apply Immediately"]

\* validateStoredData checks the assessment (and scalar fields the model
\* leaves out); it does not look at jobHistory.
validateStoredData(d) ==
    \/ d.assessment.isNull
    \/ /\ d.assessment.label \in Labels
       /\ d.assessment.matchScore >= 0
       /\ d.assessment.matchScore <= 100
       /\ d.assessment.decisionHelper \in DecisionHelpers

NoBlob == [present |-> FALSE, assessment |-> NullAssessment, jobHistory |-> <<>>]
DefaultData == [assessment |-> NullAssessment, jobHistory |-> <<>>]

\* getStoredData when chrome.storage answers: the data resolved and the blob
\* left in storage (an invalid blob is removed and the defaults are resolved)
getStoredData(blob) ==
    IF ~blob.present THEN [data |-> DefaultData, after |-> blob]
    ELSE IF ~validateStoredData(blob) THEN [data |-> DefaultData, after |-> NoBlob]
    ELSE [data |-> [assessment |-> blob.assessment, jobHistory |-> blob.jobHistory],
          after |-> blob]

\* saveStoredData: rejected when validateStoredData fails, else the blob set
saveAccepts(data) == validateStoredData(data)

savedBlob(data) ==
    [present |-> TRUE, assessment |-> data.assessment, jobHistory |-> data.jobHistory]

\* a persisted entry whose label is outside the enum
BadEntry(url) ==
    [createHistoryEntry(DraftFor(url), 1).entry EXCEPT !.label = "Great Fit"]

CorruptEntryBlob ==
    [present |-> TRUE, assessment |-> OkAssessment,
     jobHistory |-> <<BadEntry(JobUrl(2)), createHistoryEntry(DraftFor(JobUrl(1)), 1).entry>>]

CorruptAssessmentBlob ==
    [present |-> TRUE, assessment |-> BadAssessment,
     jobHistory |-> <<createHistoryEntry(DraftFor(JobUrl(1)), 1).entry>>]

InitBlobs == {NoBlob, CorruptEntryBlob, CorruptAssessmentBlob}

----------------------------------------------------------------------------
(* Site adapters (applicationTracker.ts SITE_CONFIGS) *)

SiteOrder == <<"linkedin", "indeed", "thehub", "seek">>

hostnameIncludes(site) ==
    CASE site = "linkedin" -> {"linkedin.com"}
      [] site = "indeed" -> {"indeed.com"}
      [] site = "thehub" -> {"thehub.io"}
      [] site = "seek" -> {"seek.com", "seek.co"}
      [] OTHER -> {}

\* hostname.includes(pattern)
Includes(host, pattern) ==
    CASE host = "www.linkedin.com" -> pattern = "linkedin.com"
      [] host = "au.indeed.com" -> pattern = "indeed.com"
      [] host = "thehub.io" -> pattern = "thehub.io"
      [] host = "www.seek.com.au" -> pattern \in {"seek.com", "seek.co"}
      [] host = "indeed.com.thehub.io" -> pattern \in {"indeed.com", "thehub.io"}
      [] OTHER -> FALSE

SiteMatches(site, host) == \E h \in hostnameIncludes(site) : Includes(host, h)

\* mutant: the last matching adapter wins
detectJobSite_LastMatch(host) ==
    IF \E i \in 1..Len(SiteOrder) : SiteMatches(SiteOrder[i], host)
    THEN SiteOrder[CHOOSE i \in 1..Len(SiteOrder) :
                     /\ SiteMatches(SiteOrder[i], host)
                     /\ \A j \in (i + 1)..Len(SiteOrder) : ~SiteMatches(SiteOrder[j], host)]
    ELSE "unknown"

detectJobSite(host) ==
    IF \E i \in 1..Len(SiteOrder) : SiteMatches(SiteOrder[i], host)
    THEN SiteOrder[CHOOSE i \in 1..Len(SiteOrder) :
                     /\ SiteMatches(SiteOrder[i], host)
                     /\ \A j \in 1..(i - 1) : ~SiteMatches(SiteOrder[j], host)]
    ELSE "unknown"

IsJobViewPath(path) == Len(path) = 3 /\ path[1] = "jobs" /\ path[2] = "view"

\* config.isJobPage(pathname, href) on the paths of the model (none has a query)
SiteIsJobPage(site, url) ==
    CASE site = "linkedin" -> IsJobViewPath(url.path)
      [] site = "indeed" -> FALSE
      [] site = "thehub" -> IsJobViewPath(url.path)
      [] site = "seek" -> IsJobViewPath(url.path)
      [] OTHER -> FALSE

\* config.getContainer() finds an element
SiteHasContainer(site, present) ==
    CASE site \in {"linkedin", "indeed", "thehub"} -> present
      [] OTHER -> FALSE

Hosts == {"www.linkedin.com", "jobs.example.org"}

\* a host for each adapter, one that two adapters match, and one none matches
AllHosts ==
    Hosts \cup {"au.indeed.com", "thehub.io", "www.seek.com.au", "indeed.com.thehub.io"}

PageUrl(host, path) == [scheme |-> "https", host |-> host, path |-> path]
PagePaths == {JobPath(1), JobPath(2)}

----------------------------------------------------------------------------
(* Records of the content script and the popup *)

FreeScan == [pc |-> "free", attempts |-> 0, cont |-> "none", url |-> NoUrl]
IdleAnalysis ==
    [pc |-> "idle", url |-> NoUrl, updated |-> <<>>, data |-> DefaultData,
     failed |-> FALSE]

----------------------------------------------------------------------------
(* Initial values of the variable groups *)

EntryIdle == draft = NoDraft /\ created = NotCreated

StoreIdle ==
    /\ coll = <<>>
    /\ addLog = <<>>
    /\ cycle = 0
    /\ adds = 0
    /\ readds = 0
    /\ lastOp = NoOp

EngineIdle ==
    /\ storage = NoBlob
    /\ hostname = Host
    /\ href = PageUrl(Host, PathFeed)
    /\ pageContainer = FALSE
    /\ applyElement = FALSE
    /\ dom = <<>>
    /\ boot = "start"
    /\ dcl = "none"
    /\ currentSite = "null"
    /\ isInitializing = FALSE
    /\ navigationTimeout = FALSE
    /\ lastUrl = NoUrl
    /\ scan = FreeScan
    /\ handlers = <<>>
    /\ toast = "none"
    /\ appHistory = <<>>
    /\ analysis = IdleAnalysis
    /\ jobHistoryUpdated = FALSE

Tick ==
    /\ clock < MaxClock
    /\ clock' = clock + 1

----------------------------------------------------------------------------
(* Entry specification: createHistoryEntry applied to one draft *)

EntryCreate ==
    /\ created = NotCreated
    /\ created' = createHistoryEntry(draft, clock)
    /\ UNCHANGED <<clock, draft, storeVars, engineVars>>

EntryTick ==
    /\ created = NotCreated
    /\ Tick
    /\ UNCHANGED <<entryVars, storeVars, engineVars>>

InitEntry ==
    /\ clock = 1
    /\ draft \in Drafts
    /\ created = NotCreated
    /\ StoreIdle
    /\ EngineIdle

NextEntry == EntryCreate \/ EntryTick

SpecEntry == InitEntry /\ [][NextEntry]_vars

----------------------------------------------------------------------------
(* Store specification: addToHistory and markJobAsApplied on one collection *)

StoreUrls == {JobUrl(1), JobUrlUpper(1), JobUrl(2)} \cup InvalidUrls

HasId(history, id) == \E i \in 1..Len(history) : history[i].id = id

\* createHistoryEntry followed by addToHistory, as the analysis path calls them
StoreAdd(url) ==
    LET made == createHistoryEntry(DraftFor(url), clock)
    IN  /\ made.ok
        /\ coll' = addToHistory(coll, made.entry)
        /\ lastOp' = [op |-> "add", url |-> url, preLen |-> Len(coll),
                      hit |-> HasId(coll, made.entry.id), followsAdd |-> FALSE]
        /\ UNCHANGED <<clock, entryVars, addLog, cycle, adds, readds, engineVars>>

\* createHistoryEntry throws: addToHistory is not reached
StoreAddRejected(url) ==
    /\ ~createHistoryEntry(DraftFor(url), clock).ok
    /\ lastOp' = [op |-> "addFailed", url |-> url, preLen |-> Len(coll),
                  hit |-> FALSE, followsAdd |-> FALSE]
    /\ UNCHANGED <<clock, entryVars, coll, addLog, cycle, adds, readds, engineVars>>

StoreMark(url) ==
    /\ coll' = markJobAsApplied(coll, url, clock)
    /\ lastOp' = [op |-> "mark", url |-> url, preLen |-> Len(coll),
                  hit |-> HasId(coll, generateJobId(url)),
                  followsAdd |-> (lastOp.op = "add" /\ lastOp.url = url)]
    /\ UNCHANGED <<clock, entryVars, addLog, cycle, adds, readds, engineVars>>

StoreTick ==
    /\ Tick
    /\ UNCHANGED <<entryVars, storeVars, engineVars>>

InitStore ==
    /\ clock = 1
    /\ EntryIdle
    /\ StoreIdle
    /\ EngineIdle

NextStore ==
    \/ \E url \in StoreUrls : StoreAdd(url)
    \/ \E url \in StoreUrls : StoreAddRejected(url)
    \/ \E url \in StoreUrls : StoreMark(url)
    \/ StoreTick

SpecStore == InitStore /\ [][NextStore]_vars

----------------------------------------------------------------------------
(* Capacity specification: analyses of `cycle` job pages in rotation, with  *)
(* repeated analyses of the oldest retained entry in between                *)

CapAdd(url) ==
    LET made == createHistoryEntry(DraftFor(url), clock)
    IN  /\ made.ok
        /\ coll' = addToHistory(coll, made.entry)
        /\ addLog' = Append(addLog, made.entry.id)

CapAddNext ==
    /\ adds < MaxAdds
    /\ CapAdd(JobUrl((adds % cycle) + 1))
    /\ adds' = adds + 1
    /\ UNCHANGED <<clock, entryVars, cycle, readds, lastOp, engineVars>>

CapAddOldest ==
    /\ readds < MaxReadds
    /\ Len(coll) > 0
    /\ CapAdd(coll[Len(coll)].url)
    /\ readds' = readds + 1
    /\ UNCHANGED <<clock, entryVars, cycle, adds, lastOp, engineVars>>

InitCapacity ==
    /\ clock = 1
    /\ EntryIdle
    /\ coll = <<>>
    /\ addLog = <<>>
    /\ cycle \in 1..MaxCycle
    /\ adds = 0
    /\ readds = 0
    /\ lastOp = NoOp
    /\ EngineIdle

NextCapacity == CapAddNext \/ CapAddOldest

SpecCapacity == InitCapacity /\ [][NextCapacity]_vars

----------------------------------------------------------------------------
(* Content script (applicationTracker.ts): scanning and injection.          *)
(* The synchronous part of a function is an operator on the script's state *)
(* [isInitializing, currentSite, scan]; an action is one task of the event  *)
(* loop, from its start to the next await.                                  *)


ScriptState ==
    [isInitializing |-> isInitializing, currentSite |-> currentSite, scan |-> scan]

SetScript(st) ==
    /\ isInitializing' = st.isInitializing
    /\ currentSite' = st.currentSite
    /\ scan' = st.scan

\* document.getElementById(BUTTON_ID) finds an element
ButtonExists(d) == d # <<>>

\* the document without the element getElementById returns
RemoveButton(d) == IF d = <<>> THEN d ELSE Tail(d)

\* the documents that result from placing button b
Placed(d, b) ==
    {SubSeq(d, 1, k) \o <<b>> \o SubSeq(d, k + 1, Len(d)) : k \in 0..Len(d)}

getJobSite(cs) == IF cs = "null" THEN detectJobSite(LowerCase(hostname)) ELSE cs

\* mutant: every page is a job posting page
isJobPostingPage_Always(site) == TRUE

isJobPostingPage(site) ==
    \/ site # "unknown" /\ SiteIsJobPage(site, href)
    \/ applyElement

\* "site": the adapter's container; "fallback": the parent of the element
\* mentioning "apply"; "none": null
findButtonContainer(site) ==
    IF site # "unknown" /\ SiteHasContainer(site, pageContainer) THEN "site"
    ELSE IF applyElement THEN "fallback"
    ELSE "none"

\* the button with the onclick its creator gives it
createAppliedButton(isApplied) ==
    [applied |-> isApplied, onclick |-> ~isApplied]

\* mutant: the guard is not released
ScanEnd_KeepsGuard(st) == [st EXCEPT !.scan = FreeScan]

\* the finally block of initializeButton
ScanEnd(st) == [st EXCEPT !.isInitializing = FALSE, !.scan = FreeScan]

\* mutant: the polling loop and the final check do not look for the button
PollLoop_NoExistsCheck(st, attempts) ==
    IF attempts >= MaxAttempts THEN ScanEnd(st)
    ELSE LET site == getJobSite(st.currentSite)
             container == findButtonContainer(site)
         IN  IF container = "none"
             THEN [st EXCEPT !.currentSite = site,
                             !.scan = [pc |-> "sleep", attempts |-> attempts,
                                       cont |-> "none", url |-> NoUrl]]
             ELSE [st EXCEPT !.currentSite = site,
                             !.scan = [pc |-> "read", attempts |-> attempts,
                                       cont |-> container, url |-> href]]

\* mutant: giving up after the last attempt does not release the guard
PollLoop_LeaksGuard(st, attempts) ==
    IF attempts >= MaxAttempts THEN [st EXCEPT !.scan = FreeScan]
    ELSE IF ButtonExists(dom) THEN ScanEnd(st)
    ELSE LET site == getJobSite(st.currentSite)
             container == findButtonContainer(site)
         IN  IF container = "none"
             THEN [st EXCEPT !.currentSite = site,
                             !.scan = [pc |-> "sleep", attempts |-> attempts,
                                       cont |-> "none", url |-> NoUrl]]
             ELSE [st EXCEPT !.currentSite = site,
                             !.scan = [pc |-> "read", attempts |-> attempts,
                                       cont |-> container, url |-> href]]

\* mutant: the loop test lets one more attempt through
PollLoop_OneMore(st, attempts) ==
    IF attempts > MaxAttempts THEN ScanEnd(st)
    ELSE IF ButtonExists(dom) THEN ScanEnd(st)
    ELSE LET site == getJobSite(st.currentSite)
             container == findButtonContainer(site)
         IN  IF container = "none"
             THEN [st EXCEPT !.currentSite = site,
                             !.scan = [pc |-> "sleep", attempts |-> attempts,
                                       cont |-> "none", url |-> NoUrl]]
             ELSE [st EXCEPT !.currentSite = site,
                             !.scan = [pc |-> "read", attempts |-> attempts,
                                       cont |-> container, url |-> href]]

\* The polling loop from its test, up to the next await: the 100 ms sleep or
\* getStoredData in injectButton.  The loop gives up after MaxAttempts
\* sleeps (maxAttempts = 100 in the source).
PollLoop(st, attempts) ==
    IF attempts >= MaxAttempts THEN ScanEnd(st)
    ELSE IF ButtonExists(dom) THEN ScanEnd(st)
    ELSE LET site == getJobSite(st.currentSite)
             container == findButtonContainer(site)
         IN  IF container = "none"
             THEN [st EXCEPT !.currentSite = site,
                             !.scan = [pc |-> "sleep", attempts |-> attempts,
                                       cont |-> "none", url |-> NoUrl]]
             ELSE [st EXCEPT !.currentSite = site,
                             !.scan = [pc |-> "read", attempts |-> attempts,
                                       cont |-> container, url |-> href]]

\* mutant: a scan does not look for an existing button
initializeButton_NoExistsCheck(st) ==
    IF st.isInitializing THEN st
    ELSE LET site == getJobSite(st.currentSite)
         IN  IF ~isJobPostingPage(site)
             THEN [st EXCEPT !.currentSite = site]
             ELSE PollLoop_NoExistsCheck([st EXCEPT !.currentSite = site,
                                                    !.isInitializing = TRUE], 0)

\* mutant: a trigger does not test the guard
initializeButton_NoGuard(st) ==
    IF ButtonExists(dom) THEN st
    ELSE LET site == getJobSite(st.currentSite)
         IN  IF ~isJobPostingPage(site)
             THEN [st EXCEPT !.currentSite = site]
             ELSE PollLoop([st EXCEPT !.currentSite = site,
                                      !.isInitializing = TRUE], 0)

initializeButton(st) ==
    IF st.isInitializing THEN st
    ELSE IF ButtonExists(dom) THEN st
    ELSE LET site == getJobSite(st.currentSite)
         IN  IF ~isJobPostingPage(site)
             THEN [st EXCEPT !.currentSite = site]
             ELSE PollLoop([st EXCEPT !.currentSite = site,
                                      !.isInitializing = TRUE], 0)

\* injectButton after getStoredData resolved with data: the documents that
\* may result (a detached container takes the button out of the document)
injectButton(d, data, url, cont) ==
    LET isApplied == \E i \in 1..Len(data.jobHistory) : data.jobHistory[i].url = url
    IN  IF cont = "detached" THEN {d}
        ELSE Placed(d, createAppliedButton(isApplied))

\* updateButtonState(isApplied): the documents that may result
updateButtonState(d, isApplied, site) ==
    IF findButtonContainer(site) = "none" THEN {RemoveButton(d)}
    ELSE Placed(RemoveButton(d), createAppliedButton(isApplied))

\* mutant: the button is updated whether or not the write succeeded
handleMarkAsAppliedEnd_Optimistic(ok, d, site) ==
    [doms |-> updateButtonState(d, TRUE, site),
     toast |-> IF ok THEN "success" ELSE "error"]

\* The end of handleMarkAsApplied: after the write succeeded the button is
\* updated and the success message shown; the catch block shows the error.
handleMarkAsAppliedEnd(ok, d, site) ==
    IF ok THEN [doms |-> updateButtonState(d, TRUE, site), toast |-> "success"]
    ELSE [doms |-> {d}, toast |-> "error"]

handlerVars == <<handlers, toast>>
observerVars == <<navigationTimeout, lastUrl>>

\* Module start-up: initializeButton(); observePageChanges(); and, unless the
\* document is still loading, initializeButton(); observePageChanges() again.
Boot ==
    /\ boot = "start"
    /\ boot' = "running"
    /\ lastUrl' = href
    /\ IF dcl = "waiting"
       THEN SetScript(initializeButton(ScriptState))
       ELSE SetScript(initializeButton(initializeButton(ScriptState)))
    /\ UNCHANGED <<clock, entryVars, storeVars, storage, pageVars, dom, dcl,
                   navigationTimeout, handlerVars, popupVars>>

\* the DOMContentLoaded listener has run and its 100 ms timer fires
DclTimer ==
    /\ boot = "running"
    /\ dcl = "waiting"
    /\ dcl' = "none"
    /\ SetScript(initializeButton(ScriptState))
    /\ UNCHANGED <<clock, entryVars, storeVars, storage, pageVars, dom, boot,
                   observerVars, handlerVars, popupVars>>

\* the 100 ms sleep of the polling loop is over
PollWake ==
    /\ scan.pc = "sleep"
    /\ SetScript(PollLoop(ScriptState, scan.attempts + 1))
    /\ UNCHANGED <<clock, entryVars, storeVars, storage, pageVars, dom, boot, dcl,
                   observerVars, handlerVars, popupVars>>

\* getStoredData of injectButton resolves: the button is placed
InjectResume ==
    /\ scan.pc = "read"
    /\ LET r == getStoredData(storage)
       IN  /\ storage' = r.after
           /\ dom' \in injectButton(dom, r.data, scan.url, scan.cont)
    /\ SetScript(ScanEnd([ScriptState EXCEPT
                            !.currentSite = getJobSite(currentSite)]))
    /\ UNCHANGED <<clock, entryVars, storeVars, pageVars, boot, dcl, observerVars,
                   handlerVars, popupVars>>

\* getStoredData of injectButton rejects: the catch block logs
InjectFail ==
    /\ scan.pc = "read"
    /\ SetScript(ScanEnd(ScriptState))
    /\ UNCHANGED <<clock, entryVars, storeVars, storage, pageVars, dom, boot, dcl,
                   observerVars, handlerVars, popupVars>>

\* mutant: every callback arms the debounce timer
MutationCallback_AlwaysArms ==
    /\ boot = "running"
    /\ lastUrl' = href
    /\ dom' = IF href # lastUrl THEN RemoveButton(dom) ELSE dom
    /\ navigationTimeout' = TRUE
    /\ UNCHANGED <<clock, entryVars, storeVars, storage, pageVars, boot, dcl,
                   currentSite, isInitializing, scan, handlerVars, popupVars>>

\* The MutationObserver callback.  A changed URL removes the button and
\* (re)arms the 200 ms debounce timer.
MutationCallback ==
    /\ boot = "running"
    /\ IF href # lastUrl
       THEN /\ lastUrl' = href
            /\ dom' = RemoveButton(dom)
            /\ navigationTimeout' = TRUE
       ELSE UNCHANGED <<lastUrl, dom, navigationTimeout>>
    /\ UNCHANGED <<clock, entryVars, storeVars, storage, pageVars, boot, dcl,
                   currentSite, isInitializing, scan, handlerVars, popupVars>>

\* the debounce timer fires: currentSite = null; initializeButton()
NavTimerFire ==
    /\ navigationTimeout
    /\ navigationTimeout' = FALSE
    /\ SetScript(initializeButton([ScriptState EXCEPT !.currentSite = "null"]))
    /\ UNCHANGED <<clock, entryVars, storeVars, storage, pageVars, dom, boot, dcl,
                   lastUrl, handlerVars, popupVars>>

----------------------------------------------------------------------------
(* The page: navigation and re-rendering by the host site *)

Navigate(path) ==
    /\ boot = "running"
    /\ href # PageUrl(hostname, path)
    /\ href' = PageUrl(hostname, path)
    /\ UNCHANGED <<clock, entryVars, storeVars, storage, hostname, pageContainer,
                   applyElement, scriptVars, popupVars>>

\* the page renders the container the site's adapter looks for
ContainerAppears ==
    /\ detectJobSite(LowerCase(hostname)) # "unknown"
    /\ ~pageContainer
    /\ pageContainer' = TRUE
    /\ UNCHANGED <<clock, entryVars, storeVars, storage, hostname, href,
                   applyElement, scriptVars, popupVars>>

ApplyAppears ==
    /\ ~applyElement
    /\ applyElement' = TRUE
    /\ UNCHANGED <<clock, entryVars, storeVars, storage, hostname, href,
                   pageContainer, scriptVars, popupVars>>

\* the page takes its "apply" element away; the element's parent stays
ApplyVanishes ==
    /\ applyElement
    /\ applyElement' = FALSE
    /\ UNCHANGED <<clock, entryVars, storeVars, storage, hostname, href,
                   pageContainer, scriptVars, popupVars>>

\* the page re-renders: the containers go, and the buttons inside them; a
\* container a scan holds is no longer in the document
PageClear ==
    /\ pageContainer \/ applyElement
    /\ pageContainer' = FALSE
    /\ applyElement' = FALSE
    /\ dom' = <<>>
    /\ scan' = IF scan.pc = "read" THEN [scan EXCEPT !.cont = "detached"] ELSE scan
    /\ UNCHANGED <<clock, entryVars, storeVars, storage, hostname, href, boot, dcl,
                   currentSite, isInitializing, observerVars, handlerVars, popupVars>>

----------------------------------------------------------------------------
(* handleMarkAsApplied *)

\* handlers without its h-th invocation
Ended(h) == SubSeq(handlers, 1, h - 1) \o SubSeq(handlers, h + 1, Len(handlers))

\* a click on a button whose onclick is handleMarkAsApplied: url is taken and
\* getStoredData called
Click(i) ==
    /\ i \in 1..Len(dom)
    /\ dom[i].onclick
    /\ Len(handlers) < MaxHandlers
    /\ handlers' = Append(handlers, [pc |-> "read", url |-> href, data |-> DefaultData])
    /\ UNCHANGED <<clock, entryVars, storeVars, storage, pageVars, dom, boot, dcl,
                   currentSite, isInitializing, scan, observerVars, toast, popupVars>>

\* getStoredData resolves; markJobAsApplied; saveStoredData validates and
\* calls chrome.storage.local.set
MarkRead(h) ==
    /\ h \in 1..Len(handlers)
    /\ handlers[h].pc = "read"
    /\ LET r == getStoredData(storage)
           next == [r.data EXCEPT !.jobHistory =
                       markJobAsApplied(r.data.jobHistory, handlers[h].url, clock)]
       IN  /\ storage' = r.after
           /\ saveAccepts(next)
           /\ handlers' = [handlers EXCEPT ![h] = [@ EXCEPT !.pc = "write", !.data = next]]
    /\ UNCHANGED <<clock, entryVars, storeVars, pageVars, dom, boot, dcl,
                   currentSite, isInitializing, scan, observerVars, toast, popupVars>>

\* getStoredData rejects (chrome.runtime.lastError)
MarkReadFail(h) ==
    /\ h \in 1..Len(handlers)
    /\ handlers[h].pc = "read"
    /\ LET end == handleMarkAsAppliedEnd(FALSE, dom, getJobSite(currentSite))
       IN  /\ dom' \in end.doms
           /\ toast' = end.toast
    /\ handlers' = Ended(h)
    /\ UNCHANGED <<clock, entryVars, storeVars, storage, pageVars, boot, dcl,
                   currentSite, isInitializing, scan, observerVars, popupVars>>

\* the write is done: updateButtonState(true); showSuccessMessage()
MarkWritten(h) ==
    /\ h \in 1..Len(handlers)
    /\ handlers[h].pc = "write"
    /\ storage' = savedBlob(handlers[h].data)
    /\ LET site == getJobSite(currentSite)
           end == handleMarkAsAppliedEnd(TRUE, dom, site)
       IN  /\ dom' \in end.doms
           /\ toast' = end.toast
           /\ currentSite' = site
    /\ handlers' = Ended(h)
    /\ UNCHANGED <<clock, entryVars, storeVars, pageVars, boot, dcl,
                   isInitializing, scan, observerVars, popupVars>>

\* saveStoredData rejects (size limit or chrome.runtime.lastError)
MarkWriteFail(h) ==
    /\ h \in 1..Len(handlers)
    /\ handlers[h].pc = "write"
    /\ LET end == handleMarkAsAppliedEnd(FALSE, dom, getJobSite(currentSite))
       IN  /\ dom' \in end.doms
           /\ toast' = end.toast
    /\ handlers' = Ended(h)
    /\ UNCHANGED <<clock, entryVars, storeVars, storage, pageVars, boot, dcl,
                   currentSite, isInitializing, scan, observerVars, popupVars>>

----------------------------------------------------------------------------
(* The popup: useAppData.loadData and SummaryTab.handleAnalyze *)

\* loadData: jobHistory: stored.jobHistory || []
PopupLoad ==
    /\ analysis.pc = "idle"
    /\ LET r == getStoredData(storage)
       IN  /\ storage' = r.after
           /\ appHistory' = r.data.jobHistory
    /\ appHistory' # appHistory \/ storage' # storage
    /\ UNCHANGED <<clock, entryVars, storeVars, pageVars, scriptVars, analysis,
                   jobHistoryUpdated>>

\* handleAnalyze from createHistoryEntry to getStoredData: the entry is made
\* (or the catch block shows the error), added to the popup's history and
\* handed to onUpdateData
AnalyzeStart(url) ==
    /\ analysis.pc = "idle"
    /\ LET r == createHistoryEntry(DraftFor(url), clock)
       IN  IF ~r.ok
           THEN /\ analysis' = [IdleAnalysis EXCEPT !.url = url, !.failed = TRUE]
                /\ UNCHANGED appHistory
           ELSE LET updatedHistory == addToHistory(appHistory, r.entry)
                IN  /\ appHistory' = updatedHistory
                    /\ analysis' = [pc |-> "read", url |-> url,
                                    updated |-> updatedHistory,
                                    data |-> DefaultData, failed |-> FALSE]
    /\ UNCHANGED <<clock, entryVars, storeVars, storage, pageVars, scriptVars,
                   jobHistoryUpdated>>

\* getStoredData resolves; nextStored is built and saveStoredData called
AnalyzeRead ==
    /\ analysis.pc = "read"
    /\ LET r == getStoredData(storage)
           nextStored == [assessment |-> OkAssessment, jobHistory |-> analysis.updated]
       IN  /\ storage' = r.after
           /\ saveAccepts(nextStored)
           /\ analysis' = [analysis EXCEPT !.pc = "write", !.data = nextStored]
    /\ UNCHANGED <<clock, entryVars, storeVars, pageVars, scriptVars, appHistory,
                   jobHistoryUpdated>>

\* the write is done: window.dispatchEvent(new Event('jobHistoryUpdated'))
AnalyzeWritten ==
    /\ analysis.pc = "write"
    /\ storage' = savedBlob(analysis.data)
    /\ analysis' = IdleAnalysis
    /\ jobHistoryUpdated' = ~jobHistoryUpdated
    /\ UNCHANGED <<clock, entryVars, storeVars, pageVars, scriptVars, appHistory>>

\* getStoredData or saveStoredData rejects: the catch block shows the error
AnalyzeFail ==
    /\ analysis.pc \in {"read", "write"}
    /\ analysis' = [IdleAnalysis EXCEPT !.failed = TRUE]
    /\ UNCHANGED <<clock, entryVars, storeVars, storage, pageVars, scriptVars,
                   appHistory, jobHistoryUpdated>>

----------------------------------------------------------------------------
(* The extension on a page *)

\* the URL of the active tab's page, or a text that is no web address
PopupUrls == {PageUrl(hostname, path) : path \in PagePaths} \cup InvalidUrls

Init ==
    /\ clock = 1
    /\ EntryIdle
    /\ StoreIdle
    /\ storage \in InitBlobs
    /\ hostname \in Hosts
    /\ href = PageUrl(hostname, JobPath(1))
    /\ pageContainer = FALSE
    /\ applyElement = FALSE
    /\ dom = <<>>
    /\ boot = "start"
    /\ dcl \in {"waiting", "none"}
    /\ currentSite = "null"
    /\ isInitializing = FALSE
    /\ navigationTimeout = FALSE
    /\ lastUrl = NoUrl
    /\ scan = FreeScan
    /\ handlers = <<>>
    /\ toast = "none"
    /\ appHistory = <<>>
    /\ analysis = IdleAnalysis
    /\ jobHistoryUpdated = FALSE

ScanNext ==
    \/ Boot
    \/ DclTimer
    \/ PollWake
    \/ InjectResume
    \/ InjectFail
    \/ MutationCallback

PageNext ==
    \/ ContainerAppears
    \/ ApplyAppears
    \/ ApplyVanishes
    \/ PageClear

HandlerNext ==
    \/ \E i \in 1..Len(dom) : Click(i)
    \/ \E h \in 1..MaxHandlers : MarkRead(h)
    \/ \E h \in 1..MaxHandlers : MarkReadFail(h)
    \/ \E h \in 1..MaxHandlers : MarkWritten(h)
    \/ \E h \in 1..MaxHandlers : MarkWriteFail(h)

PopupNext ==
    \/ PopupLoad
    \/ \E url \in PopupUrls : AnalyzeStart(url)
    \/ AnalyzeRead
    \/ AnalyzeWritten
    \/ AnalyzeFail

Next ==
    \/ ScanNext
    \/ PageNext
    \/ NavTimerFire
    \/ \E path \in PagePaths : Navigate(path)
    \/ HandlerNext

Spec == Init /\ [][Next]_vars

\* scans, page events and clicks on one page
NextClicks == ScanNext \/ PageNext \/ HandlerNext

\* The same with the timers and the storage read of a scan completing: the
\* 100 ms sleep of the polling loop ends, getStoredData settles
SpecFair ==
    /\ Init
    /\ [][NextClicks]_vars
    /\ WF_vars(PollWake)
    /\ WF_vars(InjectResume \/ InjectFail)

\* the popup alone
SpecPopup == Init /\ [][PopupNext]_vars

\* load and mutation events on one page, without user input
NextSamePage == ScanNext \/ PageNext

SpecSamePage == Init /\ [][NextSamePage]_vars

\* The load of a page that is rendered before the script starts and stays
\* as it is, on any of the hosts.
InitLoad ==
    /\ clock = 1
    /\ EntryIdle
    /\ StoreIdle
    /\ storage \in InitBlobs
    /\ hostname \in AllHosts
    /\ href \in {PageUrl(hostname, JobPath(1)), PageUrl(hostname, PathFeed)}
    /\ pageContainer \in BOOLEAN
    /\ pageContainer => detectJobSite(LowerCase(hostname)) # "unknown"
    /\ applyElement \in BOOLEAN
    /\ dom = <<>>
    /\ boot = "start"
    /\ dcl \in {"waiting", "none"}
    /\ currentSite = "null"
    /\ isInitializing = FALSE
    /\ navigationTimeout = FALSE
    /\ lastUrl = NoUrl
    /\ scan = FreeScan
    /\ handlers = <<>>
    /\ toast = "none"
    /\ appHistory = <<>>
    /\ analysis = IdleAnalysis
    /\ jobHistoryUpdated = FALSE

SpecLoad == InitLoad /\ [][ScanNext]_vars

\* The content script on a static job page together with the popup: both
\* read and write the persisted history.
InitShared ==
    /\ clock = 1
    /\ EntryIdle
    /\ StoreIdle
    /\ storage \in InitBlobs
    /\ hostname \in Hosts
    /\ href = PageUrl(hostname, JobPath(1))
    /\ pageContainer \in BOOLEAN
    /\ pageContainer => detectJobSite(LowerCase(hostname)) # "unknown"
    /\ applyElement \in BOOLEAN
    /\ dom = <<>>
    /\ boot = "start"
    /\ dcl \in {"waiting", "none"}
    /\ currentSite = "null"
    /\ isInitializing = FALSE
    /\ navigationTimeout = FALSE
    /\ lastUrl = NoUrl
    /\ scan = FreeScan
    /\ handlers = <<>>
    /\ toast = "none"
    /\ appHistory = <<>>
    /\ analysis = IdleAnalysis
    /\ jobHistoryUpdated = FALSE

NextShared == ScanNext \/ HandlerNext \/ PopupNext

SpecShared == InitShared /\ [][NextShared]_vars

\* a click on a button whose onclick is handleMarkAsApplied, while fewer
\* than MaxPending invocations are suspended
ClickPending(i) ==
    /\ i \in 1..Len(dom)
    /\ dom[i].onclick
    /\ Len(handlers) < MaxPending
    /\ handlers' = Append(handlers, [pc |-> "read", url |-> href, data |-> DefaultData])
    /\ UNCHANGED <<clock, entryVars, storeVars, storage, pageVars, dom, boot, dcl,
                   currentSite, isInitializing, scan, observerVars, toast, popupVars>>

ActivationNext ==
    \/ \E i \in 1..Len(dom) : ClickPending(i)
    \/ \E h \in 1..MaxPending : MarkRead(h)
    \/ \E h \in 1..MaxPending : MarkReadFail(h)
    \/ \E h \in 1..MaxPending : MarkWritten(h)
    \/ \E h \in 1..MaxPending : MarkWriteFail(h)

NextActivation == ScanNext \/ ActivationNext

\* The load of a static page and the clicks on its button, with up to
\* MaxPending invocations of handleMarkAsApplied suspended at a time.
SpecActivation == InitLoad /\ [][NextActivation]_vars

----------------------------------------------------------------------------
(* Claims about the history store *)

Range(s) == {s[i] : i \in 1..Len(s)}

RECURSIVE RecentDistinct(_, _)
\* the ids of log, most recently added first, each once
RecentDistinct(log, acc) ==
    IF log = <<>> THEN acc
    ELSE LET x == log[Len(log)]
             rest == SubSeq(log, 1, Len(log) - 1)
         IN  IF x \in Range(acc) THEN RecentDistinct(rest, acc)
             ELSE RecentDistinct(rest, Append(acc, x))

UniqueIds(history) ==
    \A i, j \in 1..Len(history) : i # j => history[i].id # history[j].id

\* C2: after any sequence of add and markApplied from the empty collection no
\* two entries share an id; an add puts the new entry at the head, and when its
\* id was already present the old copy is gone and the length has not grown.
C2_DedupOnAdd ==
    /\ UniqueIds(coll)
    /\ lastOp.op = "add" =>
        /\ Len(coll) >= 1
        /\ \E t \in 1..clock :
              coll[1] = createHistoryEntry(DraftFor(lastOp.url), t).entry
        /\ lastOp.hit => Len(coll) = lastOp.preLen
        /\ ~lastOp.hit => Len(coll) = Min(lastOp.preLen + 1, MAX_HISTORY_ITEMS)

C2_Witness ==
    /\ lastOp.op = "add"
    /\ lastOp.hit
    /\ Len(coll) = 2
    /\ \E i \in 1..Len(coll) : HasAppliedAt(coll[i])

C4_MarkAfterAdd ==
    (lastOp.op = "mark" /\ lastOp.followsAdd) =>
        \E i \in 1..Len(coll) :
            /\ coll[i].id = createHistoryEntry(DraftFor(lastOp.url), clock).entry.id
            /\ HasAppliedAt(coll[i])
            /\ coll[i].appliedAt >= coll[i].analyzedAt

\* C5: markApplied with a URL whose hash matches no entry id returns the same
\* entries, field for field, in the same order.
C5_MarkAbsentIsNoOp ==
    [][(lastOp'.op = "mark" /\ ~lastOp'.hit) => coll' = coll]_vars

C5_Witness ==
    /\ lastOp.op = "mark"
    /\ ~lastOp.hit
    /\ Len(coll) = 2
    /\ lastOp.url = JobUrlUpper(1)
    /\ ~HasAppliedAt(coll[1])

----------------------------------------------------------------------------
(* Claims about the content script, the popup and the persisted data *)

AllValid(history) == \A i \in 1..Len(history) : validateHistoryEntry(history[i])

\* C1: while location.href stays the same, whatever the order of the
\* start-up calls, the DOMContentLoaded timer and the observer's callbacks,
\* the document never holds more than one element with the button's id.
C1_AtMostOneControl == Len(dom) <= 1

\* the start-up scan has injected the button and the DOMContentLoaded timer
\* is still to fire
C1_Witness ==
    /\ Len(dom) = 1
    /\ boot = "running"
    /\ dcl = "waiting"
    /\ ~isInitializing

\* C6: an entry that fails validateHistoryEntry never reaches
\* handleMarkAsApplied or the popup: a blob holding one is read as empty.
C6_InvalidNeverHandedOut ==
    /\ \A h \in 1..Len(handlers) :
          handlers[h].pc = "write" => AllValid(handlers[h].data.jobHistory)
    /\ AllValid(appHistory)

\* C8: when the draft URL does not parse or is not http(s), createHistoryEntry
\* throws; handleAnalyze then ends in its catch block with the popup's history
\* and the persisted data as they were, and no write pending.
C8_InvalidUrlAddsNothing ==
    [][\A url \in InvalidUrls :
          AnalyzeStart(url) =>
              /\ ~createHistoryEntry(DraftFor(url), clock).ok
              /\ appHistory' = appHistory
              /\ storage' = storage
              /\ analysis'.pc = "idle"
              /\ analysis'.failed]_vars

\* an analysis of an invalid URL has failed with earlier entries in place
C8_Witness ==
    /\ analysis.failed
    /\ analysis.url \in InvalidUrls
    /\ appHistory # <<>>
    /\ storage.present
    /\ storage.jobHistory = appHistory

\* C9: when the write of a mark-applied cycle has succeeded with the button
\* in the document, the document then holds the button in its applied
\* rendering and no button with an activation handler, so that further
\* clicks start no cycle.
C9_ReplacedByApplied ==
    [][(ButtonExists(dom) /\ \E h \in 1..MaxHandlers : MarkWritten(h)) =>
          /\ dom' # <<>>
          /\ \A i \in 1..Len(dom') : dom'[i].applied /\ ~dom'[i].onclick]_vars

\* C10: a failed read or write of a mark-applied cycle shows the error, leaves
\* the buttons and the persisted data as they are and frees the handler, so
\* that the button can be clicked again; the read of a cycle changes nothing
\* either.
C10_FailureKeepsControl ==
    [][\A h \in 1..MaxHandlers :
          /\ (/\ h \in 1..Len(handlers)
              /\ handlers[h].pc = "read"
              /\ Len(handlers') = Len(handlers)
              /\ handlers'[h].pc = "write") => storage' = storage
          /\ (MarkReadFail(h) \/ MarkWriteFail(h)) =>
                /\ toast' = "error"
                /\ dom' = dom
                /\ storage' = storage
                /\ handlers' = Ended(h)]_vars

\* after a failure the button, still with its handler, was clicked again and
\* the new cycle has read the history and is writing
C10_Witness ==
    /\ toast = "error"
    /\ \E i \in 1..Len(dom) : dom[i].onclick /\ ~dom[i].applied
    /\ handlers # <<>>
    /\ \A h \in 1..Len(handlers) : handlers[h].pc = "write"

\* a scan's injectButton ends in this step (its read resolved or rejected)
InjectEnds == scan.pc = "read" /\ scan'.pc = "free"

\* the step puts one more button into the document
ButtonAdded == Len(dom') = Len(dom) + 1

\* C11: the button a scan injects is in the applied rendering, without
\* handler, exactly when the entry found for the URL has appliedAt set; with
\* no entry, or an entry never marked, it is 'Mark as Applied' with the
\* handler.
C11_AppliedIffMarked ==
    [][(InjectEnds /\ ButtonAdded) =>
          dom' \in Placed(dom, createAppliedButton(
                      isJobApplied(getStoredData(storage).data.jobHistory, scan.url)))]_vars

\* C12: every successful write of an add (handleAnalyze) and of a markApplied
\* (handleMarkAsApplied) dispatches one 'jobHistoryUpdated' event, and a
\* failed read or write dispatches none.
C12_EventAfterPersistence ==
    [][/\ (AnalyzeWritten \/ \E h \in 1..MaxHandlers : MarkWritten(h)) =>
             jobHistoryUpdated' # jobHistoryUpdated
       /\ (AnalyzeFail \/ \E h \in 1..MaxHandlers : MarkReadFail(h) \/ MarkWriteFail(h)) =>
             jobHistoryUpdated' = jobHistoryUpdated]_vars

\* the adapter each host of the model is to get
ExpectedSite(host) ==
    CASE host = "www.linkedin.com" -> "linkedin"
      [] host = "au.indeed.com" -> "indeed"
      [] host = "indeed.com.thehub.io" -> "indeed"
      [] host = "thehub.io" -> "thehub"
      [] host = "www.seek.com.au" -> "seek"
      [] OTHER -> "unknown"

C14_ReadFailureNoInject ==
    [][InjectFail => /\ dom' = dom
                     /\ ~isInitializing'
                     /\ scan' = FreeScan
                     /\ boot' = "running"]_vars

\* on the unchanging page the start-up scan found its container, its read
\* failed, and the DOMContentLoaded timer is still to come
C14_Witness ==
    /\ boot = "running"
    /\ dcl = "waiting"
    /\ findButtonContainer(getJobSite(currentSite)) # "none"
    /\ isJobPostingPage(getJobSite(currentSite))
    /\ scan = FreeScan
    /\ ~isInitializing
    /\ dom = <<>>

\* C15: when the read of a scan that found its container fails, the button
\* is injected all the same, as for an empty history: 'Mark as Applied' with
\* the handler.
C15_ReadFailureStillInjects ==
    [][(InjectFail /\ scan.cont # "detached") =>
          dom' \in Placed(dom, createAppliedButton(FALSE))]_vars

\* entries to add twice: one for the first page (retained or evicted),
\* one for a page never visited, and one that fails validation
C16_Entries ==
    {createHistoryEntry(DraftFor(JobUrl(n)), 1).entry : n \in {1, MaxCycle + 2}}
        \cup {BadEntry(JobUrl(2))}

\* C16: add(add(c, e), e) = add(c, e) for the collections the analyses build
\* (also with an invalid entry in front) and each of these entries.
C16_AddIdempotent ==
    \A c \in {coll, <<BadEntry(JobUrl(1))>> \o coll} :
        \A e \in C16_Entries :
            LET once == addToHistory(c, e)
            IN  addToHistory(once, e) = once

\* the same page was analysed twice in a row
C16_Witness ==
    /\ cycle = 1
    /\ adds = 2
    /\ coll = addToHistory(addToHistory(<<>>, coll[1]), coll[1])

\* the adapter selected for the page: the first whose host fragments match
ActiveSite == detectJobSite(LowerCase(hostname))

\* C17 as stated: on a host with a per-site adapter a scan runs only for
\* pages the adapter's isJobPage accepts, and the container of the element
\* mentioning "apply" is used only on hosts without an adapter.
C17_FallbackOnlyWithoutAdapter ==
    /\ scan.pc # "free" => (ActiveSite = "unknown" \/ SiteIsJobPage(ActiveSite, href))
    /\ scan.cont = "fallback" => ActiveSite = "unknown"

\* C17 amended: one adapter is selected per page load, by first match; a scan
\* starts exactly for pages that the adapter's isJobPage accepts or that hold
\* an element mentioning "apply", on every host; the container is the
\* adapter's when it finds one and the parent of that element otherwise.
C17_FallbackBehindAdapter ==
    [][/\ currentSite' # "null" => currentSite' = ActiveSite
       /\ (scan.pc = "free" /\ scan'.pc # "free") =>
             \/ ActiveSite # "unknown" /\ SiteIsJobPage(ActiveSite, href)
             \/ applyElement
       /\ (scan.pc = "free" /\ scan'.pc = "read") =>
             scan'.cont = IF ActiveSite # "unknown"
                                /\ SiteHasContainer(ActiveSite, pageContainer)
                          THEN "site" ELSE "fallback"
       /\ scan'.cont = "fallback" => applyElement
       /\ (/\ ActiveSite = "unknown" \/ ~SiteIsJobPage(ActiveSite, href)
           /\ ~applyElement) => (scan' = FreeScan /\ dom' = dom)]_vars

\* on a host with an adapter, a page the adapter's isJobPage rejects is
\* scanned and the fallback container is about to receive the button
C17_Witness ==
    /\ ActiveSite # "unknown"
    /\ ~SiteIsJobPage(ActiveSite, href)
    /\ currentSite = ActiveSite
    /\ scan.pc = "read"
    /\ scan.cont = "fallback"

\* a step of the DOMContentLoaded timer or of the navigation debounce timer
TimerTrigger ==
    \/ dcl = "waiting" /\ dcl' = "none"
    \/ navigationTimeout /\ ~navigationTimeout'

\* C18: the guard is set exactly while the one scan cycle is polling or
\* injecting, and a timer trigger that arrives while it is set uses up its
\* timer and leaves the cycle as it is: no new poll, no injection.
C18_SingleFlight ==
    [][/\ isInitializing' <=> scan'.pc # "free"
       /\ (isInitializing /\ TimerTrigger) =>
             /\ scan' = scan
             /\ isInitializing'
             /\ dom' = dom]_vars

\* the debounce timer has fired during a scan: currentSite was reset and the
\* call returned at the guard
C18_Witness ==
    /\ isInitializing
    /\ scan.pc # "free"
    /\ currentSite = "null"
    /\ ~navigationTimeout

\* C19: when the debounce timer of a detected navigation fires and the page
\* holds no button, a scan cycle starts from the job-page check for the
\* page now shown: polling from attempt 0 and reading for the new URL on a
\* job page, no scan otherwise.
C19_NavigationRescans ==
    [][(navigationTimeout /\ ~navigationTimeout' /\ ~ButtonExists(dom)) =>
          IF isJobPostingPage(ActiveSite)
          THEN /\ scan'.pc # "free"
               /\ scan'.attempts = 0
               /\ scan'.pc = "read" => scan'.url = href
          ELSE scan'.pc = "free"]_vars

\* C20: a scan cycle whose storage read began for a URL the observer has
\* since seen replaced ends without inserting a control.
C20_StaleScanDiscarded ==
    [][(/\ scan.pc = "read"
        /\ scan'.pc = "free"
        /\ scan.url # href
        /\ lastUrl = href) => dom' = dom]_vars

\* C21: a click made while an invocation of handleMarkAsApplied is suspended
\* on storage starts no further invocation.
C21_SecondClickStartsNone ==
    [][Len(handlers) >= 1 => Len(handlers') <= Len(handlers)]_vars

\* C22: the mutation callback that sees a changed URL leaves no button in
\* the document and the debounce timer armed.
C22_RemovedOnNavigation ==
    [][(boot = "running" /\ href # lastUrl /\ lastUrl' = href) =>
          (dom' = <<>> /\ navigationTimeout')]_vars

\* C23: a scan looks for a container at most MaxAttempts times (attempts
\* 0 .. MaxAttempts - 1); when the sleep after the last look is over the
\* scan ends: nothing is injected, no message is shown, the guard is free.
C23_PollingBounded ==
    [][/\ scan'.attempts < MaxAttempts
       /\ (scan.pc = "sleep" /\ scan' # scan) =>
             IF scan.attempts + 1 >= MaxAttempts
             THEN /\ scan' = FreeScan
                  /\ ~isInitializing'
                  /\ dom' = dom
                  /\ toast' = toast
             ELSE scan'.pc = "free" \/ scan'.attempts = scan.attempts + 1]_vars

\* the last look found no container and the scan sleeps for the last time
C23_Witness ==
    /\ isInitializing
    /\ scan.pc = "sleep"
    /\ scan.attempts = MaxAttempts - 1
    /\ findButtonContainer(getJobSite(currentSite)) = "none"
    /\ dom = <<>>

Cleaned(text, n) ==
    LET bare == SelectSeq(text, NotAngle)
        kept == Trim(bare)
    IN  IF Len(kept) <= n THEN kept ELSE SubSeq(kept, 1, n)

\* stored is the cleaned texts of the first three of input that are not
\* empty, in input order
IsTopOf(stored, input) ==
    LET n == IF Len(input) < 3 THEN Len(input) ELSE 3
        kept == {i \in 1..n : Cleaned(input[i], 150) # <<>>}
    IN  /\ Len(stored) = Cardinality(kept)
        /\ \A k \in 1..Len(stored) :
              \E i \in kept :
                 /\ Cardinality({j \in kept : j < i}) = k - 1
                 /\ stored[k] = Cleaned(input[i], 150)

NoAngle(text) == \A i \in 1..Len(text) : text[i] \notin {"<", ">"}

\* C25: the entry made from a draft stores as topGreenFlags and topRedFlags
\* the cleaned, non-empty texts of the draft's first three flags, in input
\* order, and its title, company and flags hold no '<' or '>'.
C25_TopFlagsSanitized ==
    (created # NotCreated /\ created.ok) =>
        /\ IsTopOf(created.entry.topGreenFlags, draft.greenFlags)
        /\ IsTopOf(created.entry.topRedFlags, draft.redFlags)
        /\ NoAngle(created.entry.title)
        /\ NoAngle(created.entry.company)
        /\ \A flags \in {created.entry.topGreenFlags, created.entry.topRedFlags} :
              \A i \in 1..Len(flags) : NoAngle(flags[i])

\* five flags, the first too long, the second blank, the third with markup:
\* two are stored
C25_Witness ==
    /\ created # NotCreated
    /\ created.ok
    /\ Len(draft.greenFlags) = 5
    /\ created.entry.topGreenFlags = <<LongText(MAX_FLAG_LENGTH), <<"i", "e">> >>
    /\ ~NoAngle(draft.title.v)

\* C26: with navigations and clicks interleaved with the scans, no two
\* elements of the document carry the button's id.
C26_OneControlEverywhere ==
    \A i, j \in 1..Len(dom) : i = j

\* C27: when the popup's write of an analysis of one URL completes, every
\* persisted entry of another URL that carried appliedAt before the write is
\* still persisted with appliedAt after it.
C27_NoLostUpdate ==
    [][(analysis.pc = "write" /\ analysis'.pc = "idle" /\ storage.present) =>
          \A i \in 1..Len(storage.jobHistory) :
             (/\ HasAppliedAt(storage.jobHistory[i])
              /\ storage.jobHistory[i].url # analysis.url) =>
                \E j \in 1..Len(storage'.jobHistory) :
                   /\ storage'.jobHistory[j].id = storage.jobHistory[i].id
                   /\ HasAppliedAt(storage'.jobHistory[j])]_vars

\* C28: an id that has appliedAt in the collection has it in the next
\* collection too, as long as the next collection holds the id.
C28_AppliedRetained ==
    [][\A i \in 1..Len(coll) : \A j \in 1..Len(coll') :
          (HasAppliedAt(coll[i]) /\ coll'[j].id = coll[i].id) =>
              HasAppliedAt(coll'[j])]_vars

\* C29: when an invocation of handleMarkAsApplied for the page shown ends
\* with the success message and an 'Applied' button, the persisted history
\* holds an entry for that URL with appliedAt.
C29_SuccessMeansPersisted ==
    [][(/\ Len(handlers) = 1
        /\ handlers' = <<>>
        /\ toast' = "success"
        /\ handlers[1].url = href
        /\ \E b \in 1..Len(dom') : dom'[b].applied) =>
          \E j \in 1..Len(storage'.jobHistory) :
             /\ storage'.jobHistory[j].url = href
             /\ HasAppliedAt(storage'.jobHistory[j])]_vars

\* C30: whenever no initializeButton invocation is running or suspended the
\* guard is free, and every scan that holds the guard comes to release it.
C30_GuardReleased ==
    /\ [](scan.pc = "free" => ~isInitializing)
    /\ (isInitializing ~> ~isInitializing)

\* a scan has injected its button and released the guard; the
\* DOMContentLoaded timer is still to fire
C30_Witness ==
    /\ boot = "running"
    /\ dcl = "waiting"
    /\ scan = FreeScan
    /\ ~isInitializing
    /\ currentSite # "null"
    /\ ButtonExists(dom)
    /\ handlers = <<>>
    /\ toast = "none"
    /\ lastUrl = href

====
